---- MODULE Spec2Model ----
(***************************************************************************)
(* Model of baselines/cifar/data_utils.py: load_dataset (argument          *)
(* validation, augmentation-parameter defaults, split resolution, the      *)
(* tf.data pipeline it wires up and the stream that pipeline produces),    *)
(* its preprocess callback, and augment_and_mix.                           *)
(*                                                                         *)
(* Numbers.  proportion and validation_proportion are carried in           *)
(* thousandths (1000 is 1.0), mixup_alpha and label_smoothing in tenths.   *)
(* Normalized pixel values are carried as exact rationals over a fixed     *)
(* denominator; floating-point rounding of image arithmetic is not         *)
(* modelled, the truncation of int(100 * p) in double precision is.        *)
(***************************************************************************)
EXTENDS Integers, Sequences, FiniteSets, TLC

VARIABLES
  aug_params,   \* the caller's aug_params object, shared by successive calls
  call,         \* arguments of the latest load_dataset call, and aug_params as passed
  events,       \* external effects of the latest call, in program order
  result,       \* how the latest call ended
  dataset,      \* the tf.data pipeline the latest call returned
  remaining,    \* iterator: source examples of the current epoch not yet produced
  batch,        \* iterator: the batch produced by the latest request
  ended,        \* iterator: end-of-stream has been signalled
  emitted,      \* iterator: number of batches produced so far
  mix           \* locals of a running augment_and_mix call

vars == <<aug_params, call, events, result, dataset, remaining, batch, ended,
          emitted, mix>>

loaderVars == <<aug_params, call, events, result, dataset>>
iterVars == <<remaining, batch, ended, emitted>>

(***************************************************************************)
(* Bounds of the model.                                                    *)
(***************************************************************************)
TrainExamples == 4      \* examples in the catalog's train split
TestExamples == 3       \* examples in the catalog's test split
MaxEmitted == 3         \* the batch counter of a repeating stream saturates here
MaxWidth == 2           \* largest augmix width tried
MaxDepth == 2           \* largest fixed augmix depth tried
WeightGrid == 2         \* sampled weights are multiples of 1/WeightGrid

(***************************************************************************)
(* Python values.                                                          *)
(***************************************************************************)
None == [py |-> "None"]
NoCall == [py |-> "no call"]
NoDataset == [py |-> "no dataset"]
NoBatch == <<>>
NoMix == [pc |-> "idle"]
EmptyDict == <<>>

TRAIN == "train"
TEST == "test"
VALIDATION == "validation"

\* dict.get(key, default)
Get(d, key, default) == IF key \in DOMAIN d THEN d[key] ELSE default

\* d[key] = value, every other key kept
Put(d, key, value) ==
  [k \in DOMAIN d \cup {key} |-> IF k = key THEN value ELSE d[k]]

Min(a, b) == IF a < b THEN a ELSE b

(***************************************************************************)
(* The dataset catalog (tensorflow_datasets) as load_dataset uses it.      *)
(***************************************************************************)
CatalogSplits == {TRAIN, TEST}

\* ds_info.splits[...].num_examples
NumExamples(base) == IF base = TRAIN THEN TrainExamples ELSE TestExamples

\* ds_info.features['label'].num_classes
NumClasses(name) == IF name = "cifar100" THEN 100 ELSE 10

\* label stored with example idx of a split
LabelOf(name, base, idx) ==
  (idx * 37 + (IF base = TRAIN THEN 5 ELSE 11)) % NumClasses(name)

\* percent boundary -> example index, rounded to the closest (ties to even)
PctToAbs(pct, n) ==
  LET x == pct * n
      q == x \div 100
      r == x % 100
  IN  IF 2 * r > 100 \/ (2 * r = 100 /\ q % 2 = 1) THEN q + 1 ELSE q

\* a split specifier: 'train', 'train[:k%]', 'train[k%:]'
WholeSplit(base) == [base |-> base, from |-> 0, to |-> 100]
HeadSlice(base, k) == [base |-> base, from |-> 0, to |-> k]
TailSlice(base, k) == [base |-> base, from |-> k, to |-> 100]

\* source indices a split specifier selects
SliceIndices(s) ==
  LET n == NumExamples(s.base)
  IN  {i \in 0..(n - 1) : PctToAbs(s.from, n) <= i /\ i < PctToAbs(s.to, n)}

(***************************************************************************)
(* int(100 * proportion) and int(100 * (1. - validation_proportion)) in    *)
(* double precision, for arguments given in thousandths within [0, 1]:     *)
(* the product falls just below the integer for the listed arguments and   *)
(* int() truncates.                                                        *)
(***************************************************************************)
ProductBelow == {290, 570, 580}
ComplementBelow == {340, 550, 560, 670, 680, 780, 790, 800, 810, 890, 900,
                    910, 920, 930}

IntPct(p) == IF p \in ProductBelow THEN (p \div 10) - 1 ELSE p \div 10

IntPctComplement(vp) ==
  IF vp \in ComplementBelow THEN ((1000 - vp) \div 10) - 1
  ELSE (1000 - vp) \div 10

(***************************************************************************)
(* load_dataset, lines 64-90: validation and augmentation parameters.      *)
(***************************************************************************)
\* a range check that also rejects the lower end point
OutOfRange_Open(x) == x <= 0 \/ x > 1000

OutOfRange(x) == x < 0 \/ x > 1000

\* lines 64-67: the ValueError raised, or "" when both arguments pass
ValidationError(args) ==
  IF OutOfRange(args.proportion)
    THEN "proportion needs to lie in the range [0, 1]"
  ELSE IF OutOfRange(args.validation_proportion)
    THEN "validation_proportion needs to lie in the range [0, 1]"
  ELSE ""

\* lines 68-71
Dtype(args) == IF args.use_bfloat16 THEN "bfloat16" ELSE "float32"

\* lines 76-77: the dict the body works on
LocalParams(params) == IF params = None THEN EmptyDict ELSE params

\* tf.ones([rows, cols])
Ones(rows, cols) == [i \in 1..rows |-> [j \in 1..cols |-> 1]]

\* a lazy initialisation that forgets to look for an existing mixup_coeff
WritesCoeff_Always(params) == Get(LocalParams(params), "adaptive_mixup", FALSE)

\* lines 83-85: whether mixup_coeff is written
WritesCoeff(params) ==
  /\ Get(LocalParams(params), "adaptive_mixup", FALSE)
  /\ "mixup_coeff" \notin DOMAIN LocalParams(params)

\* lines 76-85: the dict after the lazy initialisation
ParamsAfter(params, name) ==
  LET d == LocalParams(params)
  IN  IF WritesCoeff(params)
        THEN Put(d, "mixup_coeff",
                 Ones(Get(d, "ensemble_size", 1), NumClasses(name)))
        ELSE d

\* what the caller's object holds afterwards (None stays None: the fresh
\* dict of line 77 is local to the call)
CallerParamsAfter(params, name) ==
  IF params = None THEN None ELSE ParamsAfter(params, name)

\* lines 86-89
Onehot(params) ==
  LET d == LocalParams(params)
  IN  Get(d, "mixup_alpha", 0) > 0 \/ Get(d, "label_smoothing", 0) > 0

(***************************************************************************)
(* preprocess, lines 91-117, and _augmix, lines 194-206.                   *)
(***************************************************************************)
\* the first dict lookup of preprocess that fails, "" when none does
LookupFailure(split, d) ==
  IF split # TRAIN THEN ""
  ELSE IF Get(d, "random_augment", FALSE) /\ "aug_count" \notin DOMAIN d
    THEN "aug_count"
  ELSE IF "augmix" \notin DOMAIN d THEN "augmix"
  ELSE IF ~d["augmix"] THEN ""
  ELSE IF "augmix_depth" \notin DOMAIN d THEN "augmix_depth"
  ELSE IF "augmix_width" \notin DOMAIN d THEN "augmix_width"
  ELSE IF "augmix_prob_coeff" \notin DOMAIN d THEN "augmix_prob_coeff"
  ELSE IF "aug_count" \notin DOMAIN d THEN "aug_count"
  ELSE ""

\* the image half of preprocess: the stages applied and the size of the
\* leading dimension they stack (0: none)
PreprocessImage(split, normalize, d) ==
  LET train == split = TRAIN
      rand == train /\ Get(d, "random_augment", FALSE)
      amix == train /\ d["augmix"]
      s1 == IF train THEN <<"pad", "random_crop", "random_flip">> ELSE <<>>
      s2 == IF rand THEN Append(s1, "rand_augment") ELSE s1
      s3 == IF amix THEN Append(s2, "augmix")
            ELSE IF normalize THEN Append(s2, "normalize") ELSE s2
  IN  [stages |-> s3,
       stacked |-> IF amix THEN d["aug_count"] + 1
                   ELSE IF rand THEN d["aug_count"] ELSE 0]

\* tf.cast of a non-negative integer to a float type with `bits` significand
\* bits: round to nearest, ties to even
RECURSIVE Pow2(_)
Pow2(e) == IF e = 0 THEN 1 ELSE 2 * Pow2(e - 1)

RECURSIVE ExcessBits(_, _)
ExcessBits(n, bits) ==
  IF n < Pow2(bits) THEN 0 ELSE 1 + ExcessBits(n \div 2, bits)

RoundToBits(n, bits) ==
  LET e == ExcessBits(n, bits)
      unit == Pow2(e)
      q == n \div unit
      r == n % unit
  IN  IF e = 0 THEN n
      ELSE IF 2 * r > unit \/ (2 * r = unit /\ q % 2 = 1) THEN (q + 1) * unit
      ELSE q * unit

SignificandBits(dtype) == IF dtype = "bfloat16" THEN 8 ELSE 24

CastLabel(label, dtype) == RoundToBits(label, SignificandBits(dtype))

\* tf.one_hot(label, num_classes)
OneHot(label, num_classes) ==
  [i \in 0..(num_classes - 1) |-> IF i = label THEN 1 ELSE 0]

\* a label encoding that forgets the split
PreprocessLabel_AnySplit(split, onehot, label, num_classes, dtype) ==
  IF onehot
    THEN [kind |-> "onehot", vec |-> OneHot(label, num_classes)]
    ELSE [kind |-> "scalar", value |-> CastLabel(label, dtype), dtype |-> dtype]

\* lines 112-116: the label half of preprocess
PreprocessLabel(split, onehot, label, num_classes, dtype) ==
  IF split = TRAIN /\ onehot
    THEN [kind |-> "onehot", vec |-> OneHot(label, num_classes)]
    ELSE [kind |-> "scalar", value |-> CastLabel(label, dtype), dtype |-> dtype]

(***************************************************************************)
(* load_dataset, lines 119-161: split resolution and the pipeline.         *)
(***************************************************************************)
\* '{}:3.*.*'.format(name)
Versioned(name) == [name |-> name, version |-> "3.*.*"]
Unversioned(name) == [name |-> name, version |-> ""]

\* a subset that is cut from the wrong end of the train split
SubsetSlice_Tail(split, proportion) ==
  IF split = TRAIN THEN TailSlice(TRAIN, IntPct(proportion))
  ELSE HeadSlice(TEST, IntPct(proportion))

\* lines 139-142: the slice loaded when proportion < 1.0
SubsetSlice(split, proportion) ==
  IF split = TRAIN THEN HeadSlice(TRAIN, IntPct(proportion))
  ELSE HeadSlice(TEST, IntPct(proportion))

\* a pipeline that is never repeated
Repeats_Never(split) == FALSE

\* lines 144-145: shuffle and repeat are applied to the training split
Repeats(split) == split = TRAIN

\* lines 119-143: the tfds.load call made, and whether the warning is logged
ResolveSplit(args) ==
  IF args.proportion = 1000
    THEN IF args.validation_set
           THEN IF args.split = VALIDATION
                  THEN [warned |-> FALSE,
                        name |-> Versioned(args.name),
                        split |-> TailSlice(TRAIN,
                                    IntPctComplement(args.validation_proportion))]
                ELSE IF args.split = TRAIN
                  THEN [warned |-> FALSE,
                        name |-> Unversioned(args.name),
                        split |-> HeadSlice(TRAIN, 95)]
                ELSE [warned |-> FALSE,
                      name |-> Unversioned(args.name),
                      split |-> WholeSplit(args.split)]
           ELSE [warned |-> FALSE,
                 name |-> Unversioned(args.name),
                 split |-> WholeSplit(args.split)]
    ELSE [warned |-> TRUE,
          name |-> Versioned(args.name),
          split |-> SubsetSlice(args.split, args.proportion)]

\* lines 151-159: the batch-level stage mapped after batching
MixupStage(split, d) ==
  IF Get(d, "mixup_alpha", 0) > 0 /\ split = TRAIN
    THEN IF Get(d, "adaptive_mixup", FALSE) THEN "adaptive_mixup_aug"
         ELSE "mixup"
    ELSE "none"

Event(op) == [op |-> op]
LoadEvent(r) == [op |-> "tfds.load", name |-> r.name, split |-> r.split]

\* the pipeline object of lines 144-160
Pipeline(args, d) ==
  LET r == ResolveSplit(args)
  IN  [name |-> args.name,
       split |-> args.split,
       source |-> r.split,
       shuffle |-> Repeats(args.split),
       repeat |-> Repeats(args.split),
       buffer_size |-> NumExamples(TRAIN),
       image |-> PreprocessImage(args.split, args.normalize, d),
       onehot |-> Onehot(d),
       dtype |-> Dtype(args),
       num_classes |-> NumClasses(args.name),
       batch_size |-> args.batch_size,
       drop_remainder |-> args.drop_remainder,
       mixup |-> MixupStage(args.split, d)]

\* One call of load_dataset(args..., aug_params=params): how it ends, its
\* external effects in program order, the pipeline returned and the state
\* of the caller's aug_params afterwards.
LoadOutcome(args, params) ==
  LET verr == ValidationError(args)
      d == ParamsAfter(params, args.name)
      caller == CallerParamsAfter(params, args.name)
      r == ResolveSplit(args)
      head == <<Event("tfds.builder.info")>>
              \o (IF WritesCoeff(params) THEN <<Event("set mixup_coeff")>>
                  ELSE <<>>)
              \o (IF r.warned THEN <<Event("logging.warning")>> ELSE <<>>)
              \o <<LoadEvent(r)>>
      missing == LookupFailure(args.split, d)
      stages == (IF Repeats(args.split) THEN <<Event("shuffle.repeat")>>
                 ELSE <<>>)
                \o <<Event("map preprocess")>>
      tail == <<Event("batch")>>
              \o (IF MixupStage(args.split, d) # "none"
                    THEN <<Event("map mixup")>> ELSE <<>>)
              \o <<Event("prefetch")>>
  IN  IF verr # ""
        THEN [result |-> [kind |-> "ValueError", what |-> verr],
              events |-> <<>>, dataset |-> NoDataset, params |-> params]
      ELSE IF r.split.base \notin CatalogSplits
        THEN [result |-> [kind |-> "CatalogError", what |-> r.split.base],
              events |-> head, dataset |-> NoDataset, params |-> caller]
      ELSE IF missing # ""
        THEN [result |-> [kind |-> "KeyError", what |-> missing],
              events |-> head \o stages, dataset |-> NoDataset,
              params |-> caller]
      ELSE [result |-> [kind |-> "dataset", what |-> ""],
            events |-> head \o stages \o tail,
            dataset |-> Pipeline(args, d), params |-> caller]

NoResult == [kind |-> "none", what |-> ""]

load_dataset(args) ==
  LET o == LoadOutcome(args, aug_params)
  IN  /\ call' = [args |-> args, params |-> aug_params]
      /\ aug_params' = o.params
      /\ events' = o.events
      /\ result' = o.result
      /\ dataset' = o.dataset
      /\ remaining' = IF o.dataset = NoDataset THEN {}
                      ELSE SliceIndices(o.dataset.source)
      /\ batch' = NoBatch
      /\ ended' = FALSE
      /\ emitted' = 0
      /\ UNCHANGED mix

(***************************************************************************)
(* The stream the pipeline produces: source, shuffle and repeat (training  *)
(* split), preprocess per example, batch.                                  *)
(***************************************************************************)
\* the element the source hands out next: any buffered one under a shuffle
\* whose buffer holds the whole split, the first one otherwise
NextChoices(avail, shuffle) ==
  IF shuffle THEN avail
  ELSE {i \in avail : \A j \in avail : i <= j}

\* up to k elements pulled from the input, with what is left of the epoch
RECURSIVE Pulls(_, _, _)
Pulls(rem, k, ds) ==
  IF k = 0 THEN {[elems |-> <<>>, rem |-> rem]}
  ELSE LET avail == IF rem # {} THEN rem
                    ELSE IF ds.repeat THEN SliceIndices(ds.source)
                    ELSE {}
       IN  IF avail = {} THEN {[elems |-> <<>>, rem |-> {}]}
           ELSE UNION {{[elems |-> <<i>> \o t.elems, rem |-> t.rem] :
                          t \in Pulls(avail \ {i}, k - 1, ds)} :
                       i \in NextChoices(avail, ds.shuffle)}

\* preprocess applied to source example i
Preprocessed(ds, i) ==
  LET label == LabelOf(ds.name, ds.source.base, i)
  IN  [idx |-> i,
       label_in |-> label,
       label |-> PreprocessLabel(ds.split, ds.onehot, label, ds.num_classes,
                                 ds.dtype)]

\* dataset.batch(batch_size, drop_remainder): whether the pulled elements
\* make a batch
MakesBatch(elems, ds) ==
  \/ Len(elems) = ds.batch_size
  \/ Len(elems) > 0 /\ ~ds.drop_remainder

NextBatch ==
  /\ result.kind = "dataset"
  /\ ~ended
  /\ \E p \in Pulls(remaining, dataset.batch_size, dataset) :
       /\ remaining' = p.rem
       /\ IF MakesBatch(p.elems, dataset)
            THEN /\ batch' = [k \in 1..Len(p.elems) |->
                                Preprocessed(dataset, p.elems[k])]
                 /\ emitted' = IF dataset.repeat
                                 THEN Min(emitted + 1, MaxEmitted)
                                 ELSE emitted + 1
                 /\ ended' = FALSE
            ELSE /\ batch' = NoBatch
                 /\ ended' = TRUE
                 /\ UNCHANGED emitted
  /\ UNCHANGED <<loaderVars, mix>>

(***************************************************************************)
(* normalize_convert_image, lines 29-33.  An image is one pixel of three   *)
(* uint8 channels.  convert_image_dtype scales by 1/255, so the normalized *)
(* channel c is (x/255 - mean[c]) / std[c]                                 *)
(*   = (10000 x - 255 Mean4[c]) / (255 Std4[c]);                           *)
(* a normalized image is carried as its numerators over the denominators   *)
(* 255 Std4[c].                                                            *)
(***************************************************************************)
Mean4 == <<4914, 4822, 4465>>
Std4 == <<2023, 1994, 2010>>
Channels == 1..3

normalize_convert_image(image) ==
  [c \in Channels |-> 10000 * image[c] - 255 * Mean4[c]]

(***************************************************************************)
(* augment_and_mix, lines 164-191, one action per step of its body.        *)
(* Weights are carried as numerators over WeightGrid.                      *)
(***************************************************************************)
Pixels == {<<0, 0, 0>>, <<255, 128, 7>>, <<90, 200, 255>>}

\* sequences of `w` non-negative integers summing to `total`: the points a
\* Dirichlet sample of `w` weights can take on the grid
RECURSIVE Simplex(_, _)
Simplex(total, w) ==
  IF w = 1 THEN {<<total>>}
  ELSE UNION {{<<a>> \o t : t \in Simplex(total - a, w - 1)} : a \in 0..total}

\* lines 169-172
BranchWeights(width) ==
  IF width > 1 THEN Simplex(WeightGrid, width) ELSE {<<WeightGrid>>}

\* lines 174-180
BranchDepths(depth, width) ==
  IF depth < 0 THEN [1..width -> 1..3] ELSE {[k \in 1..width |-> depth]}

\* a branch that carries on from where the previous branch stopped
BranchStart_Carried(m) == m.branch_img

\* line 184: the image a branch starts from
BranchStart(m) == m.image

\* line 188: mix += branch_weights[i] * branch_img, over WeightGrid
Accumulate(m, b) ==
  [c \in Channels |-> m.mix[c] + m.branch_weights[m.i + 1] * b[c]]

\* a blend that adds the whole original instead of its (1 - mix_weight) share
MixOutput_Unweighted(m) ==
  LET orig == normalize_convert_image(m.image)
  IN  [c \in Channels |->
         m.mix_weight * m.mix[c] + WeightGrid * WeightGrid * orig[c]]

\* lines 190-191: mix_weight * mix + (1 - mix_weight) * normalized original,
\* over WeightGrid * WeightGrid
MixOutput(m) ==
  LET orig == normalize_convert_image(m.image)
  IN  [c \in Channels |->
         m.mix_weight * m.mix[c]
         + (WeightGrid - m.mix_weight) * WeightGrid * orig[c]]

\* lines 167-182: sampling and the initial locals
augment_and_mix(image, depth, width, prob_coeff) ==
  /\ mix.pc = "idle"
  /\ \E mw \in 0..WeightGrid, bw \in BranchWeights(width),
        dv \in BranchDepths(depth, width) :
       mix' = [pc |-> "loop", image |-> image, depth_arg |-> depth,
               width |-> width, prob_coeff |-> prob_coeff,
               mix_weight |-> mw, branch_weights |-> bw, depth |-> dv,
               mix |-> [c \in Channels |-> 0], i |-> 0, j |-> 0,
               branch_img |-> image,
               starts |-> <<>>, distorts |-> <<>>, branches |-> <<>>,
               out |-> <<>>]
  /\ UNCHANGED <<loaderVars, iterVars>>

\* lines 183-184: a branch begins
MixBranch ==
  /\ mix.pc = "loop"
  /\ mix.i < mix.width
  /\ mix' = [mix EXCEPT !.pc = "chain", !.j = 0,
                        !.branch_img = BranchStart(mix),
                        !.starts = Append(@, BranchStart(mix)),
                        !.distorts = Append(@, 0)]
  /\ UNCHANGED <<loaderVars, iterVars>>

\* lines 185-186: augmenter.distort, any image
MixDistort ==
  /\ mix.pc = "chain"
  /\ mix.j < mix.depth[mix.i + 1]
  /\ \E img \in Pixels :
       mix' = [mix EXCEPT !.branch_img = img, !.j = @ + 1,
                          !.distorts[mix.i + 1] = @ + 1]
  /\ UNCHANGED <<loaderVars, iterVars>>

\* lines 187-188: normalize the branch and accumulate it
MixAccumulate ==
  /\ mix.pc = "chain"
  /\ mix.j >= mix.depth[mix.i + 1]
  /\ LET b == normalize_convert_image(mix.branch_img)
     IN  mix' = [mix EXCEPT !.pc = "loop", !.i = @ + 1,
                            !.branches = Append(@, b),
                            !.mix = Accumulate(mix, b)]
  /\ UNCHANGED <<loaderVars, iterVars>>

\* lines 190-191
MixReturn ==
  /\ mix.pc = "loop"
  /\ mix.i >= mix.width
  /\ mix' = [mix EXCEPT !.pc = "done", !.out = MixOutput(mix)]
  /\ UNCHANGED <<loaderVars, iterVars>>

MixForget ==
  /\ mix.pc = "done"
  /\ mix' = NoMix
  /\ UNCHANGED <<loaderVars, iterVars>>

(***************************************************************************)
(* Inputs tried.                                                           *)
(***************************************************************************)
Splits == {TRAIN, TEST, VALIDATION}
BatchSizes == {2}
Names == {"cifar10", "cifar100"}
Proportions == {-10, 0, 100, 290, 505, 1000, 1010}
ValidationProportions == {-10, 0, 50, 100, 900, 1000, 1010}

Learned == [i \in 1..2 |-> [j \in 1..10 |-> 3]]

AugConfigs ==
  { None,
    EmptyDict,
    [augmix |-> FALSE],
    [mixup_alpha |-> 2],
    [augmix |-> FALSE, mixup_alpha |-> 2],
    [augmix |-> FALSE, label_smoothing |-> 1],
    [augmix |-> FALSE, adaptive_mixup |-> TRUE],
    [augmix |-> FALSE, adaptive_mixup |-> TRUE, mixup_alpha |-> 2,
     ensemble_size |-> 2],
    [augmix |-> FALSE, adaptive_mixup |-> TRUE, mixup_alpha |-> 2,
     ensemble_size |-> 2, mixup_coeff |-> Learned],
    [augmix |-> TRUE],
    [augmix |-> TRUE, augmix_depth |-> -1, augmix_width |-> 2,
     augmix_prob_coeff |-> 5, aug_count |-> 1],
    [augmix |-> FALSE, random_augment |-> TRUE],
    [augmix |-> FALSE, random_augment |-> TRUE, aug_count |-> 2] }

LoadArgs ==
  [split : Splits, batch_size : BatchSizes, name : Names, use_bfloat16 : BOOLEAN,
   normalize : BOOLEAN, drop_remainder : BOOLEAN, proportion : Proportions,
   validation_set : BOOLEAN, validation_proportion : ValidationProportions]

Init ==
  /\ aug_params \in AugConfigs
  /\ call = NoCall
  /\ events = <<>>
  /\ result = NoResult
  /\ dataset = NoDataset
  /\ remaining = {}
  /\ batch = NoBatch
  /\ ended = FALSE
  /\ emitted = 0
  /\ mix = NoMix

\* the caller drops the stream and whatever the call reported; only its
\* aug_params object lives on into the next call
Discard ==
  /\ call # NoCall
  /\ call' = NoCall
  /\ events' = <<>>
  /\ result' = NoResult
  /\ dataset' = NoDataset
  /\ remaining' = {}
  /\ batch' = NoBatch
  /\ ended' = FALSE
  /\ emitted' = 0
  /\ UNCHANGED <<aug_params, mix>>

Load == call = NoCall /\ \E args \in LoadArgs : load_dataset(args)

Next == Load \/ Discard

Spec == Init /\ [][Next]_vars

(***************************************************************************)
(* The returned stream consumed: calls whose arguments pass validation,    *)
(* followed by requests for batches.                                       *)
(***************************************************************************)
StreamConfigs ==
  { None,
    [augmix |-> FALSE],
    [augmix |-> FALSE, mixup_alpha |-> 2],
    [augmix |-> FALSE, label_smoothing |-> 1],
    [augmix |-> FALSE, mixup_alpha |-> -1],
    [augmix |-> FALSE, adaptive_mixup |-> TRUE, mixup_alpha |-> 2,
     ensemble_size |-> 2],
    [augmix |-> TRUE, augmix_depth |-> -1, augmix_width |-> 2,
     augmix_prob_coeff |-> 5, aug_count |-> 1] }

StreamArgs ==
  [split : Splits, batch_size : BatchSizes, name : Names,
   use_bfloat16 : BOOLEAN, normalize : {TRUE}, drop_remainder : BOOLEAN,
   proportion : {0, 290, 505, 1000}, validation_set : BOOLEAN,
   validation_proportion : {50, 900}]

InitStream ==
  /\ aug_params \in StreamConfigs
  /\ call = NoCall
  /\ events = <<>>
  /\ result = NoResult
  /\ dataset = NoDataset
  /\ remaining = {}
  /\ batch = NoBatch
  /\ ended = FALSE
  /\ emitted = 0
  /\ mix = NoMix

LoadForStream == call = NoCall /\ \E args \in StreamArgs : load_dataset(args)

NextStream == LoadForStream \/ NextBatch \/ Discard

SpecStream == InitStream /\ [][NextStream]_vars

(***************************************************************************)
(* augment_and_mix on its own.                                             *)
(***************************************************************************)
Depths == -1..MaxDepth
Widths == 1..MaxWidth
ProbCoeffs == {1, 5}

InitMix ==
  /\ aug_params = None
  /\ call = NoCall
  /\ events = <<>>
  /\ result = NoResult
  /\ dataset = NoDataset
  /\ remaining = {}
  /\ batch = NoBatch
  /\ ended = FALSE
  /\ emitted = 0
  /\ mix = NoMix

CallAugmentAndMix ==
  \E image \in Pixels, depth \in Depths, width \in Widths,
     prob_coeff \in ProbCoeffs :
    augment_and_mix(image, depth, width, prob_coeff)

NextMix ==
  \/ CallAugmentAndMix
  \/ MixBranch
  \/ MixDistort
  \/ MixAccumulate
  \/ MixReturn
  \/ MixForget

SpecMix == InitMix /\ [][NextMix]_vars

(***************************************************************************)
(* Properties.                                                             *)
(***************************************************************************)
Called == call # NoCall
Built == result.kind = "dataset"
Args == call.args
InUnit(x) == 0 <= x /\ x <= 1000
Ops == {events[k].op : k \in DOMAIN events}
LoadedSplits ==
  {events[k].split : k \in {h \in DOMAIN events : events[h].op = "tfds.load"}}
SourceCount == Cardinality(SliceIndices(dataset.source))

\* batches a slice of n examples makes
ExpectedBatches(n, size, drop) ==
  IF drop THEN n \div size ELSE (n + size - 1) \div size

RECURSIVE SumOver(_, _)
SumOver(f, S) ==
  IF S = {} THEN 0
  ELSE LET x == CHOOSE y \in S : TRUE IN f[x] + SumOver(f, S \ {x})

\* C1: load_dataset raises ValueError if and only if proportion or
\* validation_proportion lies outside [0,1], whatever the other arguments;
\* and a call that raises it has queried no catalog, loaded no dataset and
\* written nothing to aug_params.
C1_ValueErrorIffOutOfRange ==
  Called =>
    /\ (result.kind = "ValueError")
         <=> (~InUnit(Args.proportion) \/ ~InUnit(Args.validation_proportion))
    /\ result.kind = "ValueError" =>
         /\ Ops \cap {"tfds.builder.info", "tfds.load", "set mixup_coeff"} = {}
         /\ aug_params = call.params
         /\ dataset = NoDataset

C1_Witness ==
  /\ Called
  /\ result.kind = "ValueError"
  /\ ~Args.validation_set
  /\ InUnit(Args.proportion)
  /\ ~InUnit(Args.validation_proportion)
  /\ WritesCoeff(call.params)

\* C2: with proportion == 1.0 and a validation set requested, the
\* 'validation' pseudo-split loads the tail of train from
\* int(100*(1-validation_proportion))%, the train split loads the head up to
\* that same percentage, and the test split is loaded whole.
C2_TrainHeadMeetsValidationTail ==
  (Built /\ Args.proportion = 1000 /\ Args.validation_set)
    => LET k == IntPctComplement(Args.validation_proportion)
       IN  dataset.source =
             IF Args.split = VALIDATION THEN TailSlice(TRAIN, k)
             ELSE IF Args.split = TRAIN THEN HeadSlice(TRAIN, k)
             ELSE WholeSplit(TEST)

\* what holds of a stream between requests
C3_StreamState ==
  Built =>
    LET want == ExpectedBatches(SourceCount, dataset.batch_size,
                                dataset.drop_remainder)
    IN  /\ (Args.split = TRAIN /\ SourceCount > 0) => ~ended
        /\ Args.split # TRAIN =>
             /\ emitted <= want
             /\ ended => emitted = want

\* what a request for the next batch does
C3_Request ==
  (Built /\ call' = call /\ ~ended) =>
    LET want == ExpectedBatches(SourceCount, dataset.batch_size,
                                dataset.drop_remainder)
    IN  /\ (Args.split = TRAIN /\ SourceCount > 0) =>
             ~ended' /\ Len(batch') = dataset.batch_size
        /\ (Args.split # TRAIN /\ emitted < want) =>
             ~ended' /\ emitted' = emitted + 1 /\ batch' # NoBatch
        /\ (Args.split # TRAIN /\ emitted = want) => ended'

\* C3: the stream is infinite for the training split and finite for every
\* other split: a training stream over a non-empty slice never signals
\* end-of-stream and every request yields a full batch; any other stream
\* yields floor(n/batch_size) batches with drop_remainder and
\* ceil(n/batch_size) without, and the request after the last batch ends it.
C3_TrainInfiniteOthersFinite == []C3_StreamState /\ [][C3_Request]_vars

C3_Witness ==
  /\ Built
  /\ Args.split = TRAIN
  /\ SourceCount > 0
  /\ emitted = MaxEmitted
  /\ MaxEmitted * dataset.batch_size > SourceCount
  /\ batch # NoBatch
  /\ ~ended

\* C4 as stated: the training stream with proportion < 1.0 is finite (it
\* makes no more batches than its slice holds) and draws only from the head
\* int(100*proportion)% of the train split.
C4_SubsetTrainStreamFinite ==
  (Built /\ Args.split = TRAIN /\ Args.proportion < 1000) =>
    /\ dataset.source = HeadSlice(TRAIN, IntPct(Args.proportion))
    /\ emitted <= ExpectedBatches(SourceCount, dataset.batch_size, FALSE)

\* C4 as amended: the training stream with proportion < 1.0 draws every
\* example from the head int(100*proportion)% of the train split, and it is
\* not finite: over a non-empty slice it never signals end-of-stream.
C4_SubsetTrainStreamFromHead ==
  (Built /\ Args.split = TRAIN /\ Args.proportion < 1000) =>
    LET head == HeadSlice(TRAIN, IntPct(Args.proportion))
    IN  /\ dataset.source = head
        /\ \A k \in DOMAIN batch : batch[k].idx \in SliceIndices(head)
        /\ \A k \in DOMAIN batch :
             batch[k].idx < PctToAbs(IntPct(Args.proportion), TrainExamples)
        /\ SourceCount > 0 => ~ended

C4_Witness ==
  /\ Built
  /\ Args.split = TRAIN
  /\ Args.proportion < 1000
  /\ SourceCount > 0
  /\ SourceCount < TrainExamples
  /\ batch # NoBatch
  /\ emitted * dataset.batch_size > SourceCount

\* C5: with proportion < 1.0, asking for a validation set is no error:
\* load_dataset raises nothing, logs a warning and loads the slice it loads
\* with validation_set=false, the head int(100*proportion)% of train for the
\* training split and of test for any other split.  Stated here for
\* aug_params left at its default.
C5_ValidationRequestDegrades ==
  (/\ Called
   /\ call.params = None
   /\ InUnit(Args.proportion)
   /\ Args.proportion < 1000
   /\ InUnit(Args.validation_proportion)
   /\ Args.validation_set)
    => /\ Built
       /\ "logging.warning" \in Ops
       /\ LoadedSplits =
            {HeadSlice(IF Args.split = TRAIN THEN TRAIN ELSE TEST,
                       IntPct(Args.proportion))}
       /\ dataset.source =
            LoadOutcome([Args EXCEPT !.validation_set = FALSE],
                        call.params).dataset.source

\* C6: on the training split with proportion=1.0, validation_set=false and
\* aug_params left at None, load_dataset succeeds without a configuration
\* lookup failure, and with drop_remainder every batch holds batch_size
\* examples.
C6_DefaultParamsTrainSucceeds ==
  (/\ Called
   /\ call.params = None
   /\ Args.split = TRAIN
   /\ Args.proportion = 1000
   /\ ~Args.validation_set
   /\ InUnit(Args.validation_proportion))
    => /\ result.kind # "KeyError"
       /\ Built
       /\ (Args.drop_remainder /\ batch # NoBatch) =>
            Len(batch) = Args.batch_size

\* C7: preprocess emits a one-hot vector of length num_classes (a single 1
\* at the class index, entries summing to 1) if and only if the split is
\* training and mixup_alpha > 0 or label_smoothing > 0; otherwise it emits
\* the class index itself, cast to the active precision.
C7_LabelEncoding ==
  Built =>
    \A k \in DOMAIN batch :
      LET e == batch[k]
          d == LocalParams(call.params)
          n == NumClasses(Args.name)
          hot == /\ Args.split = TRAIN
                 /\ \/ Get(d, "mixup_alpha", 0) > 0
                    \/ Get(d, "label_smoothing", 0) > 0
      IN  /\ e.label_in = LabelOf(Args.name, dataset.source.base, e.idx)
          /\ (e.label.kind = "onehot") <=> hot
          /\ e.label.kind = "onehot" =>
               /\ DOMAIN e.label.vec = 0..(n - 1)
               /\ e.label.vec[e.label_in] = 1
               /\ \A c \in 0..(n - 1) : e.label.vec[c] \in {0, 1}
               /\ SumOver(e.label.vec, 0..(n - 1)) = 1
          /\ e.label.kind # "onehot" =>
               /\ e.label.kind = "scalar"
               /\ e.label.value = e.label_in
               /\ e.label.dtype =
                    (IF Args.use_bfloat16 THEN "bfloat16" ELSE "float32")

C7_Witness ==
  /\ Built
  /\ Args.split # TRAIN
  /\ Get(LocalParams(call.params), "mixup_alpha", 0) > 0
  /\ Args.use_bfloat16
  /\ batch # NoBatch
  /\ batch[1].label.kind = "scalar"
  /\ batch[1].label.value >= 10

\* C10 as stated: the only write load_dataset makes to a shared aug_params
\* is setting mixup_coeff to ones of shape [ensemble_size, num_classes], and
\* it makes it exactly when adaptive_mixup is true and mixup_coeff is absent.
C10_LazyCoeffExactlyWhenAdaptive ==
  Called =>
    LET p == call.params
        lazy == /\ p # None
                /\ Get(p, "adaptive_mixup", FALSE)
                /\ "mixup_coeff" \notin DOMAIN p
    IN  aug_params =
          IF lazy
            THEN Put(p, "mixup_coeff",
                     [i \in 1..Get(p, "ensemble_size", 1) |->
                        [j \in 1..NumClasses(Args.name) |-> 1]])
            ELSE p

\* C10 as amended: the same, for the calls that pass the range validation
\* of proportion and validation_proportion; a call that raises ValueError
\* writes nothing.  The write precedes the dataset load.
C10_LazyCoeffAfterValidation ==
  Called =>
    LET p == call.params
        lazy == /\ InUnit(Args.proportion)
                /\ InUnit(Args.validation_proportion)
                /\ p # None
                /\ Get(p, "adaptive_mixup", FALSE)
                /\ "mixup_coeff" \notin DOMAIN p
    IN  /\ aug_params =
             IF lazy
               THEN Put(p, "mixup_coeff",
                        [i \in 1..Get(p, "ensemble_size", 1) |->
                           [j \in 1..NumClasses(Args.name) |-> 1]])
               ELSE p
        /\ lazy <=> "set mixup_coeff" \in Ops
        /\ \A a, b \in DOMAIN events :
             (events[a].op = "set mixup_coeff"
              /\ events[b].op \in {"tfds.load", "map preprocess", "batch"})
               => a < b

C10_Witness ==
  /\ Called
  /\ call.params # None
  /\ "mixup_coeff" \in DOMAIN call.params
  /\ Get(call.params, "adaptive_mixup", FALSE)
  /\ call.params["mixup_coeff"] = Ones(2, NumClasses(Args.name))
  /\ aug_params = call.params
  /\ Built

Done == mix.pc = "done"
Branches == 1..mix.width

\* the weight augment_and_mix puts on branch i and on the original, over
\* WeightGrid * WeightGrid
BranchCoefficient(i) == mix.mix_weight * mix.branch_weights[i]
OriginalCoefficient == (WeightGrid - mix.mix_weight) * WeightGrid

\* C8: augment_and_mix returns a convex combination: the coefficients
\* mix_weight*branch_weights[i] on the normalized branches and
\* (1 - mix_weight) on the normalized original are non-negative and sum to
\* 1 (branch_weights = [1] when width = 1), the output is that combination,
\* and every output value lies between the least and the greatest of the
\* corresponding values of the tensors combined.
C8_ConvexCombination ==
  Done =>
    LET orig == [c \in Channels |-> 10000 * mix.image[c] - 255 * Mean4[c]]
        coef == [i \in Branches |-> BranchCoefficient(i)]
    IN  /\ Len(mix.branch_weights) = mix.width
        /\ Len(mix.branches) = mix.width
        /\ mix.width = 1 => mix.branch_weights = <<WeightGrid>>
        /\ \A i \in Branches : coef[i] >= 0
        /\ OriginalCoefficient >= 0
        /\ SumOver(coef, Branches) + OriginalCoefficient
             = WeightGrid * WeightGrid
        /\ \A c \in Channels :
             LET vals == {mix.branches[i][c] : i \in Branches} \cup {orig[c]}
                 term == [i \in Branches |-> coef[i] * mix.branches[i][c]]
             IN  /\ mix.out[c] = SumOver(term, Branches)
                                   + OriginalCoefficient * orig[c]
                 /\ \E lo \in vals : /\ \A v \in vals : lo <= v
                                      /\ WeightGrid * WeightGrid * lo <= mix.out[c]
                 /\ \E hi \in vals : /\ \A v \in vals : v <= hi
                                      /\ mix.out[c] <= WeightGrid * WeightGrid * hi

C8_Witness ==
  /\ Done
  /\ mix.width = 2
  /\ mix.mix_weight > 0
  /\ mix.mix_weight < WeightGrid
  /\ \A i \in Branches : mix.branch_weights[i] > 0
  /\ mix.branches[1] # mix.branches[2]
  /\ \A i \in Branches : mix.branches[i] # normalize_convert_image(mix.image)

\* C9: every branch of augment_and_mix starts from the original image,
\* applies the augmenter exactly depth[i] times, and is normalized and
\* accumulated once; depth[i] is the given depth when depth >= 0 (width*depth
\* distortions in all) and a draw from {1,2,3} per branch when depth < 0.
C9_BranchChains ==
  /\ mix.pc = "chain" =>
       /\ mix.j <= mix.depth[mix.i + 1]
       /\ mix.distorts[mix.i + 1] = mix.j
       /\ Len(mix.branches) = mix.i
  /\ Done =>
       /\ Len(mix.starts) = mix.width
       /\ Len(mix.distorts) = mix.width
       /\ Len(mix.branches) = mix.width
       /\ \A i \in Branches :
            /\ mix.starts[i] = mix.image
            /\ mix.distorts[i] = mix.depth[i]
            /\ mix.depth_arg >= 0 => mix.distorts[i] = mix.depth_arg
            /\ mix.depth_arg < 0 => mix.distorts[i] \in {1, 2, 3}
       /\ mix.depth_arg >= 0 =>
            SumOver(mix.distorts, Branches) = mix.width * mix.depth_arg
       /\ \A c \in Channels :
            mix.mix[c] =
              SumOver([i \in Branches |->
                         mix.branch_weights[i] * mix.branches[i][c]], Branches)

C9_Witness ==
  /\ Done
  /\ mix.width = 2
  /\ mix.depth_arg < 0
  /\ mix.distorts[1] = 3
  /\ mix.distorts[2] = 1
  /\ mix.branches[1] # normalize_convert_image(mix.image)
====
